---- MODULE Spec2Model ----
(***************************************************************************)
(* The Boggle board of serahpark/boggle: the 16 letter cubes, their        *)
(* placement on the 4x4 grid, the shake (shuffle + roll) and the selection *)
(* state machine of BoggleBoard.report_selection / reset_word.             *)
(*                                                                         *)
(* Python lists that are indexed by position (the cube list, the grid, a   *)
(* face tuple, a roll sequence) are functions on 0..n-1, as in the source. *)
(* Lists that are only appended to and compared (the selection path, the   *)
(* completed words) are TLA+ sequences.  A Python str is the sequence of   *)
(* its characters, so that "Qu" has two characters and str.upper() is a    *)
(* real conversion.                                                        *)
(***************************************************************************)
EXTENDS Integers, Sequences, FiniteSets, TLC

VARIABLES
    cubes,            \* BoggleBoard._cubes: position in the list -> cube id
    cube_grid,        \* BoggleBoard._cube_grid: row -> col -> cube id
    locations,        \* BoggleBoard._locations: cube id -> <<row, col>>
    letter,           \* BoggleCube._letter of each cube (a face string)
    status,           \* BoggleCube._status of each cube
    selected_cubes,   \* BoggleBoard._selected_cubes
    word_so_far,      \* BoggleBoard._word_so_far (characters)
    completed_words,  \* BoggleBoard._completed_words
    last_call,        \* the call that produced this state and how it ended
    items,            \* the list a shuffler was last called with, as the call left it
    copied,           \* what that call returned
    events,           \* Game.play: the batch Window.check_events returned
    is_down,          \* Button._is_down: the grid places whose button is down
    recently_pushed,  \* Button._recently_pushed: the RESET and QUIT buttons pushed
    pc                \* Game.play: the loop it is in and the event it is at

vars == << cubes, cube_grid, locations, letter, status,
           selected_cubes, word_so_far, completed_words, last_call,
           items, copied, events, is_down, recently_pushed, pc >>

\* The variables of a shuffler called on its own
shuffle_vars == << items, copied >>

\* The variables of the play loop
loop_vars == << events, is_down, recently_pushed, pc >>

board_vars == << cubes, cube_grid, locations, letter, status,
                 selected_cubes, word_so_far, completed_words >>

\* The value of last_call: the method called and how the call ended
Returned(op, outcome) == [op |-> op, outcome |-> outcome]

\* No shuffler has been called on its own
NoShuffle ==
    /\ items = << >>
    /\ copied = [returned |-> << >>, same_list |-> FALSE]

\* No play loop is running
NoLoop ==
    /\ events = << >>
    /\ is_down = {}
    /\ recently_pushed = {}
    /\ pc = [loop |-> "check_events", index |-> 0]

NoShuffleNoLoop == NoShuffle /\ NoLoop

-----------------------------------------------------------------------------
(* Program constants *)

\* len(CUBE_FACES)
NumCubes == 16

\* the row length used when the grid is built
GridSize == 4

CubeIds == 0 .. (NumCubes - 1)
Rows    == 0 .. (GridSize - 1)
Cols    == 0 .. (GridSize - 1)

\* A Python tuple / list literal as a function on 0..n-1.
Tuple(s) == [i \in 0 .. (Len(s) - 1) |-> s[i + 1]]

CUBE_FACES ==
    Tuple(<< Tuple(<<"A", "A", "C", "I", "O", "T">>),
             Tuple(<<"T", "Y", "A", "B", "I", "L">>),
             Tuple(<<"J", "M", "O", "Qu", "A", "B">>),
             Tuple(<<"A", "C", "D", "E", "M", "P">>),
             Tuple(<<"A", "C", "E", "L", "S", "R">>),
             Tuple(<<"A", "D", "E", "N", "V", "Z">>),
             Tuple(<<"A", "H", "M", "O", "R", "S">>),
             Tuple(<<"B", "F", "I", "O", "R", "X">>),
             Tuple(<<"D", "E", "N", "O", "S", "W">>),
             Tuple(<<"D", "K", "N", "O", "T", "U">>),
             Tuple(<<"E", "E", "F", "H", "I", "Y">>),
             Tuple(<<"E", "G", "I", "N", "T", "V">>),
             Tuple(<<"E", "G", "K", "L", "U", "Y">>),
             Tuple(<<"E", "H", "I", "N", "P", "S">>),
             Tuple(<<"E", "L", "P", "S", "T", "U">>),
             Tuple(<<"G", "I", "L", "R", "U", "W">>) >>)

\* The three strings BoggleCube.set_status accepts.
STATUSES == {"unselected", "selected", "most recently selected"}

-----------------------------------------------------------------------------
(* Python strings *)

\* The characters of a face string: every face is one capital letter except
\* the two-character face "Qu".
Chars(face) == IF face = "Qu" THEN <<"Q", "u">> ELSE << face >>

LowerCase == <<"a", "b", "c", "d", "e", "f", "g", "h", "i", "j", "k", "l", "m",
               "n", "o", "p", "q", "r", "s", "t", "u", "v", "w", "x", "y", "z">>
UpperCase == <<"A", "B", "C", "D", "E", "F", "G", "H", "I", "J", "K", "L", "M",
               "N", "O", "P", "Q", "R", "S", "T", "U", "V", "W", "X", "Y", "Z">>

\* str.upper() on one character
UpperChar(c) ==
    IF \E i \in DOMAIN LowerCase : LowerCase[i] = c
    THEN UpperCase[CHOOSE i \in DOMAIN LowerCase : LowerCase[i] = c]
    ELSE c

\* str.upper()
upper(s) == [i \in DOMAIN s |-> UpperChar(s[i])]

WhiteSpace == {" ", "\n", "\t"}

\* str.strip(): drops leading and trailing whitespace
RECURSIVE lstrip(_)
lstrip(s) == IF s # << >> /\ Head(s) \in WhiteSpace THEN lstrip(Tail(s)) ELSE s

RECURSIVE rstrip(_)
rstrip(s) ==
    IF s # << >> /\ s[Len(s)] \in WhiteSpace
    THEN rstrip(SubSeq(s, 1, Len(s) - 1))
    ELSE s

strip(s) == rstrip(lstrip(s))

\* The lines of the word file the lexicon is read from (an input of the game).
LexiconFile ==
    { <<"g", "e", "t", "\n">>,
      <<"P", "U", "T", "\n">>,
      <<"a", "p", "t", "\n">>,
      <<"q", "u", "a", "d", "\n">>,
      <<"i", "\n">>,
      <<" ", "N", "u", "n">> }

\* read_lexicon: the set of the stripped, upper-cased lines
read_lexicon(lines) == { upper(strip(line)) : line \in lines }

Lexicon == read_lexicon(LexiconFile)

-----------------------------------------------------------------------------
(* gambler.py: shufflers and dice *)

\* Outcomes of random.shuffle on a list of NumCubes items that the model
\* draws from: each is the list of source positions, new position -> old one.
RandomShuffles ==
    { Tuple(<<5, 1, 7, 3, 4, 0, 6, 2, 13, 9, 15, 11, 12, 8, 14, 10>>) }

\* Outcomes of NumCubes successive randint(0, 5) calls the model draws from.
RandomRolls ==
    { Tuple(<<0, 1, 3, 2, 4, 1, 0, 3, 1, 0, 2, 0, 3, 5, 2, 1>>) }

\* always_rolls of the PredictableDie instances the model draws from
PredictableValues == {4}

ShufflerKinds == {"Shuffler", "PredictableShuffler", "NonShuffler"}

Dice == { [kind |-> "SixSidedDie", always_rolls |-> 0] }
        \cup { [kind |-> "PredictableDie", always_rolls |-> k] : k \in PredictableValues }

\* Outcomes of random.shuffle on a list of n items, as lists of source
\* positions: for the cube list the ones drawn above, for a shorter list every
\* permutation of its positions
random_shuffles(n) ==
    IF n = NumCubes
    THEN RandomShuffles
    ELSE { p \in [0 .. (n - 1) -> 0 .. (n - 1)] :
             \A i, j \in 0 .. (n - 1) : i # j => p[i] # p[j] }

\* shuffle whose PredictableShuffler returns the list as it was given
shuffle_predictable_unchanged(shuffler, sequence) ==
    CASE shuffler = "PredictableShuffler" ->
           { sequence }
      [] shuffler = "NonShuffler" ->
           { sequence }
      [] shuffler = "Shuffler" ->
           { [i \in DOMAIN sequence |-> sequence[p[i]]] :
               p \in random_shuffles(Cardinality(DOMAIN sequence)) }

\* <shuffler>.shuffle(sequence): the lists the call can return
shuffle(shuffler, sequence) ==
    LET n == Cardinality(DOMAIN sequence) IN
    CASE shuffler = "PredictableShuffler" ->
           { [i \in DOMAIN sequence |-> sequence[n - 1 - i]] }
      [] shuffler = "NonShuffler" ->
           { sequence }
      [] shuffler = "Shuffler" ->
           { [i \in DOMAIN sequence |-> sequence[p[i]]] :
               p \in random_shuffles(Cardinality(DOMAIN sequence)) }

\* Shuffler.shuffle that shuffles the list it is given and returns it
shuffle_call_in_place(shuffler, sequence) ==
    IF shuffler = "Shuffler"
    THEN { [returned |-> out, argument |-> out, same_list |-> TRUE] :
             out \in shuffle(shuffler, sequence) }
    ELSE { [returned |-> out, argument |-> sequence, same_list |-> FALSE] :
             out \in shuffle(shuffler, sequence) }

\* One <shuffler>.shuffle(sequence) call: the list returned, the argument as
\* the call leaves it, and whether the list returned is the argument itself.
\* Each variant builds a list of its own (sequence[:], list(reversed(...)))
\* and works on that.
shuffle_call(shuffler, sequence) ==
    { [returned |-> out, argument |-> sequence, same_list |-> FALSE] :
        out \in shuffle(shuffler, sequence) }

\* The results of the successive die.roll() calls of one shake
die_rolls(die) ==
    IF die.kind = "PredictableDie"
    THEN { [i \in 0 .. (NumCubes - 1) |-> die.always_rolls] }
    ELSE RandomRolls

-----------------------------------------------------------------------------
(* bogglecube.py *)

\* BoggleCube.roll: the letter the cube shows after rolling `index`
roll(cube_id, index) == CUBE_FACES[cube_id][index]

\* set_status that stores whatever it is given
set_status_unchecked(st, cube_id, new_status) == [st EXCEPT ![cube_id] = new_status]

\* BoggleCube.set_status: an unknown status is ignored
set_status(st, cube_id, new_status) ==
    IF new_status \in STATUSES THEN [st EXCEPT ![cube_id] = new_status] ELSE st

-----------------------------------------------------------------------------
(* boggleboard.py *)

\* grid_of that fills the grid column by column
grid_of_column_major(cs) == [row \in Rows |-> [col \in Cols |-> cs[GridSize * col + row]]]

\* The grid built from the cube list, four cubes per row
grid_of(cs) == [row \in Rows |-> [col \in Cols |-> cs[GridSize * row + col]]]

\* The locations dictionary built from a grid
locations_of(grid) ==
    [id \in { grid[r][c] : r \in Rows, c \in Cols } |->
        CHOOSE loc \in Rows \X Cols : grid[loc[1]][loc[2]] = id]

\* BoggleBoard.get_cube
get_cube(row, col) == cube_grid[row][col]

abs(x) == IF x < 0 THEN -x ELSE x

\* adjacent with the two cubes compared by their position in the cube list,
\* so that the end of one row counts as next to the start of the following one
adjacent_by_list_index(cube1, cube2) ==
    LET i == GridSize * locations[cube1][1] + locations[cube1][2]
        j == GridSize * locations[cube2][1] + locations[cube2][2]
    IN  abs(i - j) \in {1, GridSize - 1, GridSize, GridSize + 1}

\* adjacent without its diagonal case
adjacent_no_diagonal(cube1, cube2) ==
    LET cube1_row == locations[cube1][1]
        cube1_col == locations[cube1][2]
        cube2_row == locations[cube2][1]
        cube2_col == locations[cube2][2]
    IN  IF cube1_row = cube2_row /\ abs(cube2_col - cube1_col) = 1 THEN TRUE
        ELSE IF cube1_col = cube2_col /\ abs(cube2_row - cube1_row) = 1 THEN TRUE
        ELSE FALSE

\* adjacent that takes a cube for a neighbour only when the second cube is
\* one column to the right in the same row or one row below
adjacent_one_way(cube1, cube2) ==
    LET cube1_row == locations[cube1][1]
        cube1_col == locations[cube1][2]
        cube2_row == locations[cube2][1]
        cube2_col == locations[cube2][2]
    IN  IF cube1_row = cube2_row /\ cube2_col - cube1_col = 1 THEN TRUE
        ELSE IF cube1_col = cube2_col /\ cube2_row - cube1_row = 1 THEN TRUE
        ELSE IF cube2_row - cube1_row = 1 /\ abs(cube2_col - cube1_col) = 1 THEN TRUE
        ELSE FALSE

\* BoggleBoard.adjacent, on the ids of the two cubes
adjacent(cube1, cube2) ==
    LET cube1_row == locations[cube1][1]
        cube1_col == locations[cube1][2]
        cube2_row == locations[cube2][1]
        cube2_col == locations[cube2][2]
    IN  IF cube1_row = cube2_row /\ abs(cube2_col - cube1_col) = 1 THEN TRUE
        ELSE IF cube1_col = cube2_col /\ abs(cube2_row - cube1_row) = 1 THEN TRUE
        ELSE IF abs(cube2_row - cube1_row) = 1 /\ abs(cube2_col - cube1_col) = 1 THEN TRUE
        ELSE FALSE

\* The ids of the cubes in a cube list
ids_of(cs) == { cs[i] : i \in DOMAIN cs }

\* unselect_all that resets only the cube at the end of the path
unselect_all_head_only ==
    [id \in DOMAIN status |->
        IF status[id] = "most recently selected" THEN "unselected" ELSE status[id]]

\* BoggleBoard.unselect_all: the statuses afterwards
unselect_all ==
    [id \in DOMAIN status |-> IF id \in ids_of(cubes) THEN "unselected" ELSE status[id]]

\* rolled that gives the i-th result of the die to the cube whose id is i
rolled_by_id(cs, rolls, old) ==
    [id \in DOMAIN old |->
        IF id \in ids_of(cs) THEN roll(id, rolls[id]) ELSE old[id]]

\* The letters after `for cube in self._cubes: cube.roll(die)`, the i-th cube
\* of the list getting the i-th result of the die
rolled(cs, rolls, old) ==
    [id \in DOMAIN old |->
        IF id \in ids_of(cs)
        THEN roll(id, rolls[CHOOSE i \in DOMAIN cs : cs[i] = id])
        ELSE old[id]]

\* BoggleBoard.__init__(lexicon)
BoardInit ==
    /\ cubes = [i \in 0 .. (NumCubes - 1) |-> i]
    /\ cube_grid = grid_of(cubes)
    /\ locations = locations_of(cube_grid)
    /\ letter = [id \in CubeIds |-> CUBE_FACES[id][0]]
    /\ status = [id \in CubeIds |-> "unselected"]
    /\ selected_cubes = << >>
    /\ word_so_far = << >>
    /\ completed_words = << >>
    /\ last_call = Returned("__init__", "returned")

\* BoggleBoard.shake_cubes(shuffler, die) on a board whose cube list is cs and
\* whose cubes show the letters old: the cube lists and letters it can leave.
\* update_grid_locations then rebuilds the grid and the locations from the list.
shaken(cs, old, shuffler, die) ==
    { [cubes |-> shuffled, letter |-> rolled(shuffled, rolls, old)] :
        shuffled \in shuffle(shuffler, cs), rolls \in die_rolls(die) }

\* update_grid_locations that rebuilds the grid and keeps the old locations
update_grid_locations_grid_only(cs) ==
    /\ cube_grid' = grid_of(cs)
    /\ locations' = locations

\* BoggleBoard.update_grid_locations for the cube list cs
update_grid_locations(cs) ==
    /\ cube_grid' = grid_of(cs)
    /\ locations' = locations_of(grid_of(cs))

\* BoggleBoard.shake_cubes(shuffler, die)
shake_cubes(shuffler, die) ==
    \E after \in shaken(cubes, letter, shuffler, die) :
        /\ cubes' = after.cubes
        /\ update_grid_locations(after.cubes)
        /\ letter' = after.letter
        /\ last_call' = Returned("shake_cubes", "returned")
        /\ UNCHANGED << status, selected_cubes, word_so_far, completed_words >>

\* BoggleBoard.reset_word()
\* Variant: the explicit reset also forgets the completed words.
reset_word_clears_completed ==
    /\ word_so_far' = << >>
    /\ selected_cubes' = << >>
    /\ status' = unselect_all
    /\ completed_words' = << >>
    /\ last_call' = Returned("reset_word", "returned")
    /\ UNCHANGED << cubes, cube_grid, locations, letter >>

reset_word ==
    /\ word_so_far' = << >>
    /\ selected_cubes' = << >>
    /\ status' = unselect_all
    /\ last_call' = Returned("reset_word", "returned")
    /\ UNCHANGED << cubes, cube_grid, locations, letter, completed_words >>

\* first_selection that marks the cube 'selected'
first_selection_marks_selected(cube_id, curr_cube) ==
    /\ selected_cubes' = Append(selected_cubes, cube_id)
    /\ word_so_far' = word_so_far \o Chars(letter[curr_cube])
    /\ status' = set_status(status, curr_cube, "selected")
    /\ last_call' = Returned("report_selection", "first")
    /\ UNCHANGED << cubes, cube_grid, locations, letter, completed_words >>

\* report_selection, the first cube of a word: the path, the word and the
\* cube's status
first_selection(cube_id, curr_cube) ==
    /\ selected_cubes' = Append(selected_cubes, cube_id)
    /\ word_so_far' = word_so_far \o Chars(letter[curr_cube])
    /\ status' = set_status(status, curr_cube, "most recently selected")
    /\ last_call' = Returned("report_selection", "first")
    /\ UNCHANGED << cubes, cube_grid, locations, letter, completed_words >>

\* extend_selection that leaves the previous cube 'most recently selected'
extend_selection_keeps_head(cube_id, curr_cube, prev_cube) ==
    /\ selected_cubes' = Append(selected_cubes, cube_id)
    /\ word_so_far' = word_so_far \o Chars(letter[curr_cube])
    /\ status' = set_status(status, curr_cube, "most recently selected")
    /\ last_call' = Returned("report_selection", "extended")
    /\ UNCHANGED << cubes, cube_grid, locations, letter, completed_words >>

\* extend_selection that appends the previous cube's letter
extend_selection_prev_letter(cube_id, curr_cube, prev_cube) ==
    /\ selected_cubes' = Append(selected_cubes, cube_id)
    /\ word_so_far' = word_so_far \o Chars(letter[prev_cube])
    /\ status' = set_status(set_status(status, curr_cube, "most recently selected"),
                            prev_cube, "selected")
    /\ last_call' = Returned("report_selection", "extended")
    /\ UNCHANGED << cubes, cube_grid, locations, letter, completed_words >>

\* report_selection, an unselected cube adjacent to the previous one
extend_selection(cube_id, curr_cube, prev_cube) ==
    /\ selected_cubes' = Append(selected_cubes, cube_id)
    /\ word_so_far' = word_so_far \o Chars(letter[curr_cube])
    /\ status' = set_status(set_status(status, curr_cube, "most recently selected"),
                            prev_cube, "selected")
    /\ last_call' = Returned("report_selection", "extended")
    /\ UNCHANGED << cubes, cube_grid, locations, letter, completed_words >>

\* finalize_word that resets the selection only when the word is recorded
finalize_word_resets_if_valid ==
    IF word_so_far \in Lexicon
    THEN /\ completed_words' = Append(completed_words, word_so_far)
         /\ word_so_far' = << >>
         /\ selected_cubes' = << >>
         /\ status' = unselect_all
         /\ last_call' = Returned("report_selection", "completed")
         /\ UNCHANGED << cubes, cube_grid, locations, letter >>
    ELSE /\ last_call' = Returned("report_selection", "rejected")
         /\ UNCHANGED board_vars

\* finalize_word that records the word without looking it up
finalize_word_records_any ==
    /\ completed_words' = Append(completed_words, word_so_far)
    /\ word_so_far' = << >>
    /\ selected_cubes' = << >>
    /\ status' = unselect_all
    /\ last_call' = Returned("report_selection", "completed")
    /\ UNCHANGED << cubes, cube_grid, locations, letter >>

\* finalize_word that records only words of two letters or more
finalize_word_min_length ==
    IF word_so_far \in Lexicon /\ Len(word_so_far) >= 2
    THEN /\ completed_words' = Append(completed_words, word_so_far)
         /\ word_so_far' = << >>
         /\ selected_cubes' = << >>
         /\ status' = unselect_all
         /\ last_call' = Returned("report_selection", "completed")
         /\ UNCHANGED << cubes, cube_grid, locations, letter >>
    ELSE /\ word_so_far' = << >>
         /\ selected_cubes' = << >>
         /\ status' = unselect_all
         /\ last_call' = Returned("report_selection", "rejected")
         /\ UNCHANGED << cubes, cube_grid, locations, letter, completed_words >>

\* finalize_word that clears the word before it records it
finalize_word_resets_first ==
    IF word_so_far \in Lexicon
    THEN /\ completed_words' = Append(completed_words, << >>)
         /\ word_so_far' = << >>
         /\ selected_cubes' = << >>
         /\ status' = unselect_all
         /\ last_call' = Returned("report_selection", "completed")
         /\ UNCHANGED << cubes, cube_grid, locations, letter >>
    ELSE /\ word_so_far' = << >>
         /\ selected_cubes' = << >>
         /\ status' = unselect_all
         /\ last_call' = Returned("report_selection", "rejected")
         /\ UNCHANGED << cubes, cube_grid, locations, letter, completed_words >>

\* finalize_word that records a word only when it was not found before
finalize_word_dedup ==
    IF word_so_far \in Lexicon
    THEN /\ completed_words' =
                IF \E i \in DOMAIN completed_words : completed_words[i] = word_so_far
                THEN completed_words
                ELSE Append(completed_words, word_so_far)
         /\ word_so_far' = << >>
         /\ selected_cubes' = << >>
         /\ status' = unselect_all
         /\ last_call' = Returned("report_selection", "completed")
         /\ UNCHANGED << cubes, cube_grid, locations, letter >>
    ELSE /\ word_so_far' = << >>
         /\ selected_cubes' = << >>
         /\ status' = unselect_all
         /\ last_call' = Returned("report_selection", "rejected")
         /\ UNCHANGED << cubes, cube_grid, locations, letter, completed_words >>

\* report_selection, the most recently selected cube picked again: the word is
\* recorded when the lexicon holds it, and the selection is reset either way
finalize_word ==
    IF word_so_far \in Lexicon
    THEN /\ completed_words' = Append(completed_words, word_so_far)
         /\ word_so_far' = << >>
         /\ selected_cubes' = << >>
         /\ status' = unselect_all
         /\ last_call' = Returned("report_selection", "completed")
         /\ UNCHANGED << cubes, cube_grid, locations, letter >>
    ELSE /\ word_so_far' = << >>
         /\ selected_cubes' = << >>
         /\ status' = unselect_all
         /\ last_call' = Returned("report_selection", "rejected")
         /\ UNCHANGED << cubes, cube_grid, locations, letter, completed_words >>

\* A call that returns (or raises) without changing the board
no_change(op, outcome) ==
    /\ last_call' = Returned(op, outcome)
    /\ UNCHANGED board_vars

\* report_selection that extends the path with any adjacent cube that is not
\* the most recently selected one, the cubes already in the path included
report_selection_reuses_selected(cube_id) ==
    IF cube_id \notin DOMAIN locations
    THEN no_change("report_selection", "KeyError")
    ELSE
    LET row == locations[cube_id][1]
        col == locations[cube_id][2]
        curr_cube == get_cube(row, col)
    IN  IF selected_cubes = << >>
        THEN first_selection(cube_id, curr_cube)
        ELSE IF status[curr_cube] # "most recently selected"
        THEN LET last == selected_cubes[Len(selected_cubes)]
                 prev_row == locations[last][1]
                 prev_col == locations[last][2]
                 prev_cube == get_cube(prev_row, prev_col)
             IN  IF adjacent(curr_cube, prev_cube)
                 THEN extend_selection(cube_id, curr_cube, prev_cube)
                 ELSE no_change("report_selection", "not adjacent")
        ELSE finalize_word

\* report_selection whose last branch takes every cube that is not
\* 'unselected' for the finalize signal
report_selection_any_selected_finalizes(cube_id) ==
    IF cube_id \notin DOMAIN locations
    THEN no_change("report_selection", "KeyError")
    ELSE
    LET row == locations[cube_id][1]
        col == locations[cube_id][2]
        curr_cube == get_cube(row, col)
    IN  IF selected_cubes = << >>
        THEN first_selection(cube_id, curr_cube)
        ELSE IF status[curr_cube] = "unselected"
        THEN LET last == selected_cubes[Len(selected_cubes)]
                 prev_row == locations[last][1]
                 prev_col == locations[last][2]
                 prev_cube == get_cube(prev_row, prev_col)
             IN  IF adjacent(curr_cube, prev_cube)
                 THEN extend_selection(cube_id, curr_cube, prev_cube)
                 ELSE no_change("report_selection", "not adjacent")
        ELSE finalize_word

\* BoggleBoard.report_selection(cube_id)
report_selection(cube_id) ==
    IF cube_id \notin DOMAIN locations
    THEN \* self._locations[cube_id] raises KeyError before anything is changed
         no_change("report_selection", "KeyError")
    ELSE
    LET row == locations[cube_id][1]
        col == locations[cube_id][2]
        curr_cube == get_cube(row, col)
    IN  IF selected_cubes = << >>
        THEN first_selection(cube_id, curr_cube)
        ELSE IF status[curr_cube] = "unselected"
        THEN LET last == selected_cubes[Len(selected_cubes)]
                 prev_row == locations[last][1]
                 prev_col == locations[last][2]
                 prev_cube == get_cube(prev_row, prev_col)
             IN  IF adjacent(curr_cube, prev_cube)
                 THEN extend_selection(cube_id, curr_cube, prev_cube)
                 ELSE no_change("report_selection", "not adjacent")
        ELSE IF status[curr_cube] = "most recently selected"
        THEN finalize_word
        ELSE no_change("report_selection", "already selected")

-----------------------------------------------------------------------------
(* bogglecube.py, a cube's methods called directly *)

\* letters[index] on a tuple of n items: the positions the subscript reads.
\* An index from -n to -1 counts from the end; any other index outside
\* 0 .. n-1 raises IndexError (no position).
subscript(n, index) ==
    IF index >= 0 /\ index < n THEN { index }
    ELSE IF index < 0 /\ index >= -n THEN { index + n }
    ELSE {}

\* PredictableDie(always_rolls).roll() / SixSidedDie().roll(): the values one
\* call can return
die_roll(die) ==
    IF die.kind = "PredictableDie" THEN { die.always_rolls } ELSE 0 .. 5

\* BoggleCube.roll(die) on the cube cube_id
cube_roll(cube_id, die) ==
    \E index \in die_roll(die) :
        LET letters == CUBE_FACES[cube_id]
            at == subscript(Cardinality(DOMAIN letters), index)
        IN  IF at = {}
            THEN no_change("roll", "IndexError")
            ELSE /\ letter' = [letter EXCEPT ![cube_id] = roll(cube_id, CHOOSE i \in at : TRUE)]
                 /\ last_call' = Returned("roll", "returned")
                 /\ UNCHANGED << cubes, cube_grid, locations, status, selected_cubes,
                                 word_so_far, completed_words >>

\* BoggleCube.set_status(status) on the cube cube_id; the call returns
\* nothing and raises nothing, and the outcome records whether the argument
\* was one of the three statuses
cube_set_status(cube_id, new_status) ==
    /\ status' = set_status(status, cube_id, new_status)
    /\ last_call' = Returned("set_status",
                             IF new_status \in STATUSES THEN "returned" ELSE "returned, unknown status")
    /\ UNCHANGED << cubes, cube_grid, locations, letter, selected_cubes,
                    word_so_far, completed_words >>

-----
(* Bounds of the model *)

\* longest selection path explored
MaxPath == 3

\* most completed words explored
MaxCompleted == 2

WithinBounds ==
    /\ Len(selected_cubes') <= MaxPath
    /\ Len(completed_words') <= MaxCompleted

-----------------------------------------------------------------------------
(* One game: BoggleGame.__init__ builds the board and shakes it once, then  *)
(* the player's clicks and ESC presses reach report_selection / reset_word. *)

\* The shuffler and die a game is started with: the doctests' pair and
\* play_boggle's.  (The pair of the commented-out call in boggle.py,
\* NonShuffler and PredictableDie(0), leaves the board as constructed.)
GameStarts ==
    { << "PredictableShuffler", [kind |-> "PredictableDie", always_rolls |-> 4] >>,
      << "Shuffler",            [kind |-> "SixSidedDie", always_rolls |-> 0] >> }

\* The ids report_selection is called with: the sixteen cubes and one id
\* that names no cube.
SelectionInputs == CubeIds \cup {NumCubes}

\* A board as constructed, or as BoggleGame.__init__ leaves it
GameInit ==
    \/ BoardInit
    \/ \E start \in GameStarts :
         \E after \in shaken([i \in 0 .. (NumCubes - 1) |-> i],
                              [id \in CubeIds |-> CUBE_FACES[id][0]],
                              start[1], start[2]) :
            /\ cubes = after.cubes
            /\ cube_grid = grid_of(cubes)
            /\ locations = locations_of(cube_grid)
            /\ letter = after.letter
            /\ status = [id \in CubeIds |-> "unselected"]
            /\ selected_cubes = << >>
            /\ word_so_far = << >>
            /\ completed_words = << >>
            /\ last_call = Returned("shake_cubes", "returned")

Init == GameInit /\ NoShuffleNoLoop

Select ==
    /\ \E cube_id \in SelectionInputs : report_selection(cube_id) /\ WithinBounds
    /\ UNCHANGED << shuffle_vars, loop_vars >>

Reset ==
    /\ reset_word
    /\ UNCHANGED << shuffle_vars, loop_vars >>

Next == Select \/ Reset

Spec == Init /\ [][Next]_vars

-----------------------------------------------------------------------------
(* The board driven through its public methods in any order, shake_cubes    *)
(* included.                                                                *)

\* The ids report_selection is called with here
ApiInputs == {2, 5, 6, NumCubes}

ApiInit == BoardInit /\ NoShuffleNoLoop

ApiShake ==
    /\ \E shuffler \in ShufflerKinds, die \in Dice : shake_cubes(shuffler, die)
    /\ UNCHANGED << shuffle_vars, loop_vars >>

ApiSelect ==
    /\ \E cube_id \in ApiInputs : report_selection(cube_id) /\ WithinBounds
    /\ UNCHANGED << shuffle_vars, loop_vars >>

ApiReset ==
    /\ reset_word
    /\ UNCHANGED << shuffle_vars, loop_vars >>

ApiNext == ApiShake \/ ApiSelect \/ ApiReset

ApiSpec == ApiInit /\ [][ApiNext]_vars

\* ---------------------------------------------------------------------
\* The same three board operations, called in any order on the cubes that
\* spell the doctest's word: a board that is shaken again in mid-game while
\* words are being completed.
\* ---------------------------------------------------------------------

\* The cube ids of the doctest of report_selection, and one unknown id.
WordInputs == {9, 12, 13, NumCubes}

WordInit == BoardInit /\ NoShuffleNoLoop

WordShake ==
    /\ \E shuffler \in ShufflerKinds, die \in Dice : shake_cubes(shuffler, die)
    /\ UNCHANGED << shuffle_vars, loop_vars >>

WordSelect ==
    /\ \E cube_id \in WordInputs : report_selection(cube_id) /\ WithinBounds
    /\ UNCHANGED << shuffle_vars, loop_vars >>

WordReset ==
    /\ reset_word
    /\ UNCHANGED << shuffle_vars, loop_vars >>

WordNext == WordShake \/ WordSelect \/ WordReset

WordSpec == WordInit /\ [][WordNext]_vars

-----------------------------------------------------------------------------
(* Cubes whose status is set directly, between the board's operations *)

\* The arguments set_status is called with: the three statuses and two
\* strings that are none of them
StatusInputs == STATUSES \cup {"Selected", ""}

StatusInit == BoardInit /\ NoShuffleNoLoop

StatusSet ==
    /\ \E cube_id \in CubeIds \cap ApiInputs, new_status \in StatusInputs :
          cube_set_status(cube_id, new_status)
    /\ UNCHANGED << shuffle_vars, loop_vars >>

StatusSelect ==
    /\ \E cube_id \in ApiInputs : report_selection(cube_id) /\ WithinBounds
    /\ UNCHANGED << shuffle_vars, loop_vars >>

StatusReset ==
    /\ reset_word
    /\ UNCHANGED << shuffle_vars, loop_vars >>

StatusNext == StatusSet \/ StatusSelect \/ StatusReset

StatusSpec == StatusInit /\ [][StatusNext]_vars

-----------------------------------------------------------------------------
(* Cubes rolled one at a time with dice of any fixed value *)

\* largest always_rolls of the dice explored (the smallest is -(MaxRoll + 1))
MaxRoll == 7

RollValues == (-(MaxRoll + 1)) .. MaxRoll

\* The cubes that are rolled
RollCubes == {2, 8, 15}

RollInit == BoardInit /\ NoShuffleNoLoop

RollFixed ==
    /\ \E cube_id \in RollCubes, value \in RollValues :
          cube_roll(cube_id, [kind |-> "PredictableDie", always_rolls |-> value])
    /\ UNCHANGED << shuffle_vars, loop_vars >>

RollRandom ==
    /\ \E cube_id \in RollCubes :
          cube_roll(cube_id, [kind |-> "SixSidedDie", always_rolls |-> 0])
    /\ UNCHANGED << shuffle_vars, loop_vars >>

RollNext == RollFixed \/ RollRandom

RollSpec == RollInit /\ [][RollNext]_vars

-----------------------------------------------------------------------------
(* A shuffler called on its own, on short lists *)

\* longest list a shuffler is given
MaxLen == 3

\* The things the lists hold
ShuffleItems == {"x", "y", "z"}

\* The lists a shuffler is given
ShuffleInputs == UNION { [0 .. (n - 1) -> ShuffleItems] : n \in 0 .. MaxLen }

\* result = <shuffler>.shuffle(items)
shuffle_step(shuffler) ==
    \E out \in shuffle_call(shuffler, items) :
        /\ items' = out.argument
        /\ copied' = [returned |-> out.returned, same_list |-> out.same_list]
        /\ last_call' = Returned("shuffle", "returned")
        /\ UNCHANGED << board_vars, loop_vars >>

ShuffleInit == BoardInit /\ items \in ShuffleInputs /\ copied = [returned |-> << >>, same_list |-> FALSE] /\ NoLoop

ShuffleCall == \E shuffler \in ShufflerKinds : shuffle_step(shuffler)

\* The list returned takes the place of the one given, as in
\* self._cubes = shuffler.shuffle(self._cubes)
ShuffleAssign ==
    /\ last_call.op = "shuffle"
    /\ items' = copied.returned
    /\ last_call' = Returned("assign", "returned")
    /\ UNCHANGED << board_vars, copied, loop_vars >>

ShuffleNext == ShuffleCall \/ ShuffleAssign

ShuffleSpec == ShuffleInit /\ [][ShuffleNext]_vars

-----------------------------------------------------------------------------
(* The play loop of a game: Game.play fetches a batch of events with        *)
(* Window.check_events, which notifies every widget of every event of the   *)
(* batch, and then hands each event of the batch to handle_event.           *)

\* most events in one batch
MaxBatch == 3

\* The grid places whose cube graphic is clicked
ClickPlaces == {2, 3, 6}

\* The ESC key pressed (KEYDOWN with key 27)
ESC == [type |-> "KEYDOWN", key |-> 27, pos |-> 0]

\* A mouse button pressed at a position inside the cube graphic of a place
MouseDown(place) == [type |-> "MOUSEBUTTONDOWN", key |-> 0, pos |-> place]

\* A mouse button released
MouseUp == [type |-> "MOUSEBUTTONUP", key |-> 0, pos |-> 0]

PlayEvents == { ESC, MouseUp } \cup { MouseDown(place) : place \in ClickPlaces }

\* The events of a batch come from one mouse button: it is not pressed again
\* before it is released
RECURSIVE OneButton(_, _)
OneButton(batch, down) ==
    IF batch = << >> THEN TRUE
    ELSE IF Head(batch).type = "MOUSEBUTTONDOWN" THEN ~down /\ OneButton(Tail(batch), TRUE)
    ELSE IF Head(batch).type = "MOUSEBUTTONUP" THEN OneButton(Tail(batch), FALSE)
    ELSE OneButton(Tail(batch), down)

\* The batches pygame.event.get() returns
Batches == UNION { [1 .. n -> PlayEvents] : n \in 1 .. MaxBatch }

\* The cube of the CubeGraphic that BoggleGame.__init__ put at a grid place
widget_cube(place) == get_cube(place \div GridSize, place % GridSize)

\* The next position of a loop over the batch, or the start of what follows it
next_pc(after) ==
    IF pc.index < Len(events)
    THEN [loop |-> pc.loop, index |-> pc.index + 1]
    ELSE after

\* BoggleGame.__init__ with the doctests' shuffler and die or play_boggle's
PlayInit == GameInit /\ last_call.op = "shake_cubes" /\ NoShuffle /\ NoLoop

\* Window.check_events: events = list(pg.event.get())
PlayCheckEvents ==
    /\ pc.loop = "check_events"
    /\ \E batch \in Batches :
          /\ OneButton(batch, is_down # {})
          /\ events' = batch
    /\ pc' = [loop |-> "notify", index |-> 1]
    /\ UNCHANGED << board_vars, last_call, is_down, recently_pushed, shuffle_vars >>

\* Window.check_events: self.notify(event) for the next event of the batch.
\* Button.notify marks the button down on a press inside it; on a release the
\* button that is down is pushed, and CubeGraphic.notify then calls
\* cube.select(), which is board.report_selection(cube id).
PlayNotify ==
    /\ pc.loop = "notify"
    /\ LET event == events[pc.index]
       IN  IF event.type = "MOUSEBUTTONDOWN"
           THEN /\ is_down' = is_down \cup { event.pos }
                /\ UNCHANGED << board_vars, last_call >>
           ELSE IF event.type = "MOUSEBUTTONUP" /\ is_down # {}
           THEN /\ \E place \in is_down : report_selection(widget_cube(place))
                /\ WithinBounds
                /\ is_down' = {}
           ELSE UNCHANGED << board_vars, last_call, is_down >>
    /\ pc' = next_pc([loop |-> "handle_event", index |-> 1])
    /\ UNCHANGED << events, recently_pushed, shuffle_vars >>

\* Game.play: self.handle_event(event) for the next event of the batch
\* (BoggleGame.handle_event: ESC resets the word, any other event only
\* refreshes the text that is shown)
PlayHandleEvent ==
    /\ pc.loop = "handle_event"
    /\ LET event == events[pc.index]
       IN  IF event.type = "KEYDOWN" /\ event.key = 27
           THEN reset_word
           ELSE UNCHANGED << board_vars, last_call >>
    /\ pc' = next_pc([loop |-> "check_events", index |-> 0])
    /\ UNCHANGED << events, is_down, recently_pushed, shuffle_vars >>

PlayNext == PlayCheckEvents \/ PlayNotify \/ PlayHandleEvent

PlaySpec == PlayInit /\ [][PlayNext]_vars

\* ---------------------------------------------------------------------
\* play_boggle: the games it creates one after the other, each played by
\* Game.play until its RESET or its QUIT button has been pushed.
\* ---------------------------------------------------------------------

\* The grid place whose cube graphic is clicked in these games
QuitCubePlaces == {2}

\* The RESET button and the QUIT button that Game.__init__ adds to the
\* window, as places beside the sixteen of the grid
ResetPlace == NumCubes
QuitPlace == NumCubes + 1

\* The window is closed (pg.QUIT)
WindowClose == [type |-> "QUIT", key |-> 0, pos |-> 0]

QuitEvents ==
    { ESC, MouseUp, WindowClose }
    \cup { MouseDown(place) : place \in QuitCubePlaces \cup {ResetPlace, QuitPlace} }

\* The batches pygame.event.get() returns, the empty batch included
QuitBatches == UNION { [1 .. n -> QuitEvents] : n \in 0 .. MaxBatch }

\* The shuffler and the die that __main__ calls play_boggle with
play_boggle_start == << "Shuffler", [kind |-> "SixSidedDie", always_rolls |-> 0] >>

\* The boards BoggleGame.__init__ leaves: constructed, then shaken
new_boards ==
    shaken([i \in 0 .. (NumCubes - 1) |-> i],
           [id \in CubeIds |-> CUBE_FACES[id][0]],
           play_boggle_start[1], play_boggle_start[2])

\* play_boggle's first game, before its play() has checked any event
QuitInit ==
    /\ \E after \in new_boards :
          /\ cubes = after.cubes
          /\ cube_grid = grid_of(cubes)
          /\ locations = locations_of(cube_grid)
          /\ letter = after.letter
    /\ status = [id \in CubeIds |-> "unselected"]
    /\ selected_cubes = << >>
    /\ word_so_far = << >>
    /\ completed_words = << >>
    /\ last_call = Returned("shake_cubes", "returned")
    /\ NoShuffle
    /\ NoLoop

\* Window.check_events: events = list(pg.event.get()); with no event both
\* loops over the batch are skipped
QuitCheckEvents ==
    /\ pc.loop = "check_events"
    /\ \E batch \in QuitBatches :
          /\ OneButton(batch, is_down # {})
          /\ events' = batch
          /\ pc' = IF batch = << >>
                   THEN [loop |-> "check_buttons", index |-> 0]
                   ELSE [loop |-> "notify", index |-> 1]
    /\ UNCHANGED << board_vars, last_call, is_down, recently_pushed, shuffle_vars >>

\* Window.check_events: self.notify(event) for the next event of the batch.
\* Button.notify marks the button down on a press inside it; on a release the
\* button that is down is pushed: a cube graphic then selects its cube and
\* resets itself, the RESET and QUIT buttons stay pushed.  QuitButton.notify
\* also counts the closing of the window as a push.
QuitNotify ==
    /\ pc.loop = "notify"
    /\ LET event == events[pc.index]
       IN  IF event.type = "MOUSEBUTTONDOWN"
           THEN /\ is_down' = is_down \cup { event.pos }
                /\ UNCHANGED << board_vars, last_call, recently_pushed >>
           ELSE IF event.type = "MOUSEBUTTONUP" /\ is_down # {}
           THEN /\ is_down' = {}
                /\ \E place \in is_down :
                      IF place \in QuitCubePlaces
                      THEN /\ report_selection(widget_cube(place))
                           /\ WithinBounds
                           /\ UNCHANGED recently_pushed
                      ELSE /\ recently_pushed' = recently_pushed \cup { place }
                           /\ UNCHANGED << board_vars, last_call >>
           ELSE IF event.type = "QUIT"
           THEN /\ recently_pushed' = recently_pushed \cup { QuitPlace }
                /\ UNCHANGED << board_vars, last_call, is_down >>
           ELSE UNCHANGED << board_vars, last_call, is_down, recently_pushed >>
    /\ pc' = next_pc([loop |-> "handle_event", index |-> 1])
    /\ UNCHANGED << events, shuffle_vars >>

\* Game.play: self.handle_event(event) for the next event of the batch
QuitHandleEvent ==
    /\ pc.loop = "handle_event"
    /\ LET event == events[pc.index]
       IN  IF event.type = "KEYDOWN" /\ event.key = 27
           THEN reset_word
           ELSE UNCHANGED << board_vars, last_call >>
    /\ pc' = next_pc([loop |-> "check_buttons", index |-> 0])
    /\ UNCHANGED << events, is_down, recently_pushed, shuffle_vars >>

\* Game.play: quit_now and reset_now are read from the two buttons; the
\* loop goes on while neither is set, and play returns not reset_now
QuitCheckButtons ==
    /\ pc.loop = "check_buttons"
    /\ LET quit_now == QuitPlace \in recently_pushed
           reset_now == ResetPlace \in recently_pushed
       IN  IF ~ (quit_now \/ reset_now)
           THEN /\ pc' = [loop |-> "check_events", index |-> 0]
                /\ UNCHANGED last_call
           ELSE /\ pc' = [loop |-> "returned", index |-> 0]
                /\ last_call' = Returned("play", IF ~ reset_now THEN "True" ELSE "False")
    /\ UNCHANGED << board_vars, events, is_down, recently_pushed, shuffle_vars >>

\* play_boggle: quit_now = game.play(); while not quit_now a new BoggleGame
\* is created, with a new board, new buttons and a new play loop
QuitPlayBoggle ==
    /\ pc.loop = "returned"
    /\ IF last_call.outcome = "True"
       THEN /\ pc' = [loop |-> "exited", index |-> 0]
            /\ UNCHANGED << board_vars, last_call, events, is_down, recently_pushed >>
       ELSE /\ \E after \in new_boards :
                  /\ cubes' = after.cubes
                  /\ update_grid_locations(after.cubes)
                  /\ letter' = after.letter
            /\ status' = [id \in CubeIds |-> "unselected"]
            /\ selected_cubes' = << >>
            /\ word_so_far' = << >>
            /\ completed_words' = << >>
            /\ last_call' = Returned("shake_cubes", "returned")
            /\ events' = << >>
            /\ is_down' = {}
            /\ recently_pushed' = {}
            /\ pc' = [loop |-> "check_events", index |-> 0]
    /\ UNCHANGED shuffle_vars

QuitNext ==
    \/ QuitCheckEvents
    \/ QuitNotify
    \/ QuitHandleEvent
    \/ QuitCheckButtons
    \/ QuitPlayBoggle

QuitSpec == QuitInit /\ [][QuitNext]_vars

-----------------------------------------------------------------------------
(* Vocabulary of the properties *)

MRS == "most recently selected"

\* The cubes whose status is 'most recently selected'
Heads == { id \in DOMAIN status : status[id] = MRS }

\* The last id of the selection path
PathEnd == selected_cubes[Len(selected_cubes)]

AllUnselected(st) == \A id \in CubeIds : st[id] = "unselected"

\* The concatenation, in path order, of the letters the cubes of a path show
RECURSIVE PathWord(_)
PathWord(path) ==
    IF path = << >> THEN << >>
    ELSE Chars(letter[Head(path)]) \o PathWord(Tail(path))

\* The number of letter tokens of a word: a face is one capital letter, or
\* "Qu", whose lower-case u belongs to the token of the Q before it
Tokens(word) == Len(word) - Cardinality({ i \in DOMAIN word : word[i] = "u" })

Max(a, b) == IF a >= b THEN a ELSE b

\* Chebyshev distance 1 between the positions the location index gives for
\* two cubes
Neighbours(a, b) ==
    LET pa == locations[a]
        pb == locations[b]
    IN  Max(abs(pa[1] - pb[1]), abs(pa[2] - pb[2])) = 1

IsPrefix(s, t) == Len(s) <= Len(t) /\ SubSeq(t, 1, Len(s)) = s

-----------------------------------------------------------------------------
(* Properties *)

\* C1. Single head: at most one cube is 'most recently selected'; when the
\* selection path is non-empty that cube is the last id of the path, and when
\* the path is empty no cube has that status.
C1_SingleHead ==
    /\ Cardinality(Heads) <= 1
    /\ selected_cubes # << >> => Heads = { PathEnd }
    /\ selected_cubes = << >> => Heads = {}

\* A path of three cubes whose head was reached by extending the path twice.
C1_Witness ==
    /\ Len(selected_cubes) = 3
    /\ last_call = Returned("report_selection", "extended")
    /\ status[PathEnd] = MRS

\* C2. Path consistency: with no shake between the picks, word_so_far is the
\* concatenation, in path order, of the letters the cubes of the path show,
\* and it has as many letter tokens as the path has cubes.
C2_PathConsistency ==
    /\ word_so_far = PathWord(selected_cubes)
    /\ Tokens(word_so_far) = Len(selected_cubes)

\* A three-cube path through the "Qu" face: four characters, three tokens.
C2_Witness ==
    /\ Len(selected_cubes) = 3
    /\ Len(word_so_far) = 4
    /\ \E i \in DOMAIN selected_cubes : letter[selected_cubes[i]] = "Qu"

\* C3. word_so_far always equals the concatenation of the current letters of
\* the cubes of the path, also when shake_cubes is called while the path is
\* non-empty.
C3_WordFollowsLetters == word_so_far = PathWord(selected_cubes)

\* C4. Finalize resets fully: report_selection of the cube that is 'most
\* recently selected' leaves an empty path, an empty word and all sixteen cubes
\* 'unselected', whether or not the word is in the lexicon.
C4_FinalizeResets ==
    [][\A k \in CubeIds :
          (status[k] = MRS /\ report_selection(k))
          => /\ selected_cubes' = << >>
             /\ word_so_far' = << >>
             /\ AllUnselected(status')]_vars

\* A finalize of a word the lexicon does not hold has just reset the board.
C4_Witness ==
    /\ last_call = Returned("report_selection", "rejected")
    /\ selected_cubes = << >>

\* C5. Finalize validation: when the path head is picked again, a word is
\* appended to completed_words if and only if word_so_far in upper case is in
\* the lexicon; so a path through the face "Qu" is accepted when its
\* upper-cased word is in the lexicon.
C5_FinalizeValidatesUpper ==
    [][\A k \in CubeIds :
          (selected_cubes # << >> /\ status[k] = MRS /\ report_selection(k))
          => IF upper(word_so_far) \in Lexicon
             THEN /\ Len(completed_words') = Len(completed_words) + 1
                  /\ IsPrefix(completed_words, completed_words')
             ELSE completed_words' = completed_words]_vars

\* C6. A non-adjacent pick is a no-op: with a non-empty path, report_selection
\* of an 'unselected' cube that is not a neighbour of the last cube of the path
\* changes neither the path, the word, the completed words nor any status, and
\* raises nothing.  (Stated as: a step either changes none of them and raises
\* nothing, or is no such pick.)
C6_NonAdjacentNoOp ==
    [][\/ /\ UNCHANGED << selected_cubes, word_so_far, completed_words, status >>
          /\ last_call'.outcome # "KeyError"
       \/ ~ \E k \in CubeIds :
              /\ selected_cubes # << >>
              /\ status[k] = "unselected"
              /\ ~Neighbours(k, PathEnd)
              /\ report_selection(k)]_vars

\* A pick has just been ignored for not being adjacent, on a path in progress.
C6_Witness ==
    /\ last_call = Returned("report_selection", "not adjacent")
    /\ selected_cubes # << >>
    /\ \E k \in CubeIds : status[k] = "unselected" /\ ~Neighbours(k, PathEnd)

\* C7. A mid-path re-pick is a no-op: report_selection of a cube whose status
\* is 'selected' changes neither the path, the word, the completed words nor
\* any status.
C7_MidPathNoOp ==
    [][\A k \in CubeIds :
          (status[k] = "selected" /\ report_selection(k))
          => UNCHANGED << selected_cubes, word_so_far, completed_words, status >>]_vars

\* A pick of an already selected cube has just been ignored.
C7_Witness ==
    /\ last_call = Returned("report_selection", "already selected")
    /\ \E k \in CubeIds : status[k] = "selected"

\* C8. Adjacent extension: with a non-empty path, report_selection of an
\* 'unselected' neighbour of the last cube appends its id to the path and its
\* letter to the word, makes it 'most recently selected' and the previous last
\* cube 'selected', and changes no other status and not completed_words.
C8_AdjacentExtension ==
    [][\A k \in CubeIds :
          (/\ selected_cubes # << >>
           /\ status[k] = "unselected"
           /\ Neighbours(k, PathEnd)
           /\ report_selection(k))
          => /\ selected_cubes' = Append(selected_cubes, k)
             /\ word_so_far' = word_so_far \o Chars(letter[k])
             /\ status' = [status EXCEPT ![k] = MRS, ![PathEnd] = "selected"]
             /\ completed_words' = completed_words]_vars

\* The path has just been extended by a neighbour of its previous last cube.
C8_Witness ==
    /\ last_call = Returned("report_selection", "extended")
    /\ Len(selected_cubes) >= 2
    /\ Neighbours(PathEnd, selected_cubes[Len(selected_cubes) - 1])

\* C9. First pick: with an empty path, report_selection(k) for a cube id k in
\* 0..15 makes the path <<k>>, the word that cube's letter and that cube 'most
\* recently selected', all other cubes staying 'unselected'.
C9_FirstPick ==
    [][\A k \in CubeIds :
          (selected_cubes = << >> /\ report_selection(k))
          => /\ selected_cubes' = << k >>
             /\ word_so_far' = Chars(letter[k])
             /\ status' = [id \in CubeIds |-> IF id = k THEN MRS ELSE "unselected"]]_vars

\* A first pick has just been made.
C9_Witness ==
    /\ last_call = Returned("report_selection", "first")
    /\ Len(selected_cubes) = 1

\* C10. reset_word leaves an empty path, an empty word and all cubes
\* 'unselected', and changes neither completed_words, the placement nor any
\* cube's letter.
C10_ResetWord ==
    [][reset_word
        => /\ selected_cubes' = << >>
           /\ word_so_far' = << >>
           /\ AllUnselected(status')
           /\ UNCHANGED << completed_words, cubes, cube_grid, locations, letter >>]_vars

\* reset_word has just returned on a board that holds a completed word.
C10_Witness ==
    /\ last_call = Returned("reset_word", "returned")
    /\ completed_words # << >>
    /\ selected_cubes = << >>

\* The ids that occur in a path
PathIds == { selected_cubes[i] : i \in DOMAIN selected_cubes }

\* Chebyshev distance 1 between the places two cubes have in the grid itself
GridNeighbours(a, b) ==
    \E r1 \in Rows, c1 \in Cols, r2 \in Rows, c2 \in Cols :
        /\ cube_grid[r1][c1] = a
        /\ cube_grid[r2][c2] = b
        /\ Max(abs(r1 - r2), abs(c1 - c2)) = 1

\* C11. No cube is reused within a word: the ids of the selection path are
\* pairwise distinct, so the path has at most sixteen cubes; the path is empty
\* in the initial state and after every reset_word and every finalize.
C11_NoCubeReused ==
    /\ \A i, j \in DOMAIN selected_cubes : i # j => selected_cubes[i] # selected_cubes[j]
    /\ Len(selected_cubes) <= NumCubes
    /\ last_call.op \in {"__init__", "shake_cubes", "reset_word"} => selected_cubes = << >>
    /\ last_call.outcome \in {"completed", "rejected"} => selected_cubes = << >>

\* A path of three different cubes, one of its earlier cubes being adjacent to
\* its last one (so that picking it again could have extended the path).
C11_Witness ==
    /\ Len(selected_cubes) = 3
    /\ Cardinality(PathIds) = 3
    /\ adjacent(selected_cubes[1], selected_cubes[3])

\* C12. In a game (the board shaken at its start, then report_selection and
\* reset_word calls) every two consecutive cubes of the selection path are at
\* Chebyshev distance 1 in the current grid.
C12_PathIsAdjacent ==
    \A i \in 1 .. (Len(selected_cubes) - 1) :
        GridNeighbours(selected_cubes[i], selected_cubes[i + 1])

\* A three-cube path on a shaken board that ends with a diagonal step.
C12_Witness ==
    /\ Len(selected_cubes) = 3
    /\ cubes # [i \in 0 .. (NumCubes - 1) |-> i]
    /\ locations[selected_cubes[2]][1] # locations[selected_cubes[3]][1]
    /\ locations[selected_cubes[2]][2] # locations[selected_cubes[3]][2]

\* C13. Every cube of the selection path other than the last one has status
\* 'selected'.
C13_EarlierCubesSelected ==
    \A i \in 1 .. (Len(selected_cubes) - 1) : status[selected_cubes[i]] = "selected"

\* A path with two cubes before its head, both 'selected'.
C13_Witness ==
    /\ Len(selected_cubes) = 3
    /\ status[selected_cubes[1]] = "selected"
    /\ status[selected_cubes[2]] = "selected"
    /\ status[selected_cubes[3]] = MRS

\* The cubes adjacent(cube, .) holds for
AdjacentTo(cube) == { k \in CubeIds : adjacent(cube, k) }

\* The cube list of a board as constructed
ConstructedOrder == [i \in 0 .. (NumCubes - 1) |-> i]

\* C14. Adjacency exactness: in every placement reached by any number of
\* shakes, adjacent(A, B) holds for two cubes exactly when the larger of their
\* row distance and column distance, taken from the location index, is 1; in
\* particular adjacent(A, A) is false.
C14_AdjacencyExact ==
    /\ \A a, b \in CubeIds :
          adjacent(a, b) <=>
             Max(abs(locations[a][1] - locations[b][1]),
                 abs(locations[a][2] - locations[b][2])) = 1
    /\ \A a \in CubeIds : ~adjacent(a, a)

\* After a shake that moved the cubes: two cubes on a diagonal are adjacent,
\* and two cubes that were side by side in the constructed grid are not.
C14_Witness ==
    /\ last_call.op = "shake_cubes"
    /\ cubes # ConstructedOrder
    /\ \E a, b \in CubeIds :
          /\ locations[a][1] # locations[b][1]
          /\ locations[a][2] # locations[b][2]
          /\ adjacent(a, b)
    /\ \E a, b \in CubeIds : abs(a - b) = 1 /\ a \div GridSize = b \div GridSize /\ ~adjacent(a, b)

\* C15. Adjacency symmetry: in any placement, adjacent(A, B) = adjacent(B, A)
\* for all cubes A and B.
C15_AdjacencySymmetric ==
    \A a, b \in CubeIds : adjacent(a, b) = adjacent(b, a)

\* On a shaken board, a cube with a neighbour above it, one to its left and
\* one diagonally above.
C15_Witness ==
    /\ last_call.op = "shake_cubes"
    /\ cubes # ConstructedOrder
    /\ \E a, b, c, d \in CubeIds :
          /\ locations[a] = << 1, 1 >>
          /\ locations[b] = << 0, 1 >> /\ adjacent(a, b) /\ adjacent(b, a)
          /\ locations[c] = << 1, 0 >> /\ adjacent(a, c) /\ adjacent(c, a)
          /\ locations[d] = << 0, 2 >> /\ adjacent(a, d) /\ adjacent(d, a)

\* C16. Neighbour counts on the 4x4 grid: the cube at (1,1) is adjacent to
\* exactly the cubes at (0,0), (0,1), (0,2), (1,0), (1,2), (2,0), (2,1) and
\* (2,2); the cube at the corner (0,0) is adjacent to exactly three cubes; and
\* no adjacency wraps around an edge of the grid: the two ends of a row, the
\* two ends of a column, and the end of a row and the start of the next one
\* are not adjacent.
C16_NeighbourCounts ==
    /\ AdjacentTo(get_cube(1, 1)) =
          { get_cube(0, 0), get_cube(0, 1), get_cube(0, 2), get_cube(1, 0),
            get_cube(1, 2), get_cube(2, 0), get_cube(2, 1), get_cube(2, 2) }
    /\ Cardinality(AdjacentTo(get_cube(1, 1))) = 8
    /\ Cardinality(AdjacentTo(get_cube(0, 0))) = 3
    /\ \A r \in Rows : ~adjacent(get_cube(r, 0), get_cube(r, GridSize - 1))
    /\ \A c \in Cols : ~adjacent(get_cube(0, c), get_cube(GridSize - 1, c))
    /\ \A r \in 0 .. (GridSize - 2) :
          /\ ~adjacent(get_cube(r, GridSize - 1), get_cube(r + 1, 0))
          /\ ~adjacent(get_cube(r + 1, 0), get_cube(r, GridSize - 1))

\* A shaken board whose cube at (1,1) is not the one placed there by the
\* constructor, with its eight neighbours.
C16_Witness ==
    /\ last_call.op = "shake_cubes"
    /\ get_cube(1, 1) # GridSize + 1
    /\ Cardinality(AdjacentTo(get_cube(1, 1))) = 8
    /\ Cardinality(AdjacentTo(get_cube(0, 0))) = 3

\* C17. Grid/location consistency: after construction and after any number of
\* shake_cubes calls with any shuffler, the cube at grid[row][col] has id k if
\* and only if location[k] = (row, col), and every id 0..15 is at exactly one
\* grid position.
C17_GridLocationConsistent ==
    /\ DOMAIN locations = CubeIds
    /\ \A row \in Rows, col \in Cols, k \in CubeIds :
          cube_grid[row][col] = k <=> locations[k] = << row, col >>
    /\ \A k \in CubeIds :
          Cardinality({ loc \in Rows \X Cols : cube_grid[loc[1]][loc[2]] = k }) = 1

\* After a shake the cubes are in an order that is neither the constructed
\* one nor its reverse, and the cube at (0,0) is found there by its location.
C17_Witness ==
    /\ last_call.op = "shake_cubes"
    /\ cubes # ConstructedOrder
    /\ cubes # [i \in 0 .. (NumCubes - 1) |-> NumCubes - 1 - i]
    /\ \E k \in CubeIds : cube_grid[0][0] = k /\ locations[k] = << 0, 0 >> /\ k \notin {0, NumCubes - 1}

\* The shuffler and the die of the doctests
DoctestDie == [kind |-> "PredictableDie", always_rolls |-> 4]

\* The board the doctests play on: the constructed cube list reversed, every
\* cube showing its face 4
DoctestBoard ==
    /\ cubes = [i \in 0 .. (NumCubes - 1) |-> NumCubes - 1 - i]
    /\ letter = [id \in CubeIds |-> CUBE_FACES[id][4]]

PUT == << "P", "U", "T" >>

\* C18. Reproducible shake: on a board whose cubes are in the constructed
\* order, shake_cubes with the PredictableShuffler and a PredictableDie(4)
\* places cube 15 - (4*row + col) at (row, col) and leaves every cube showing
\* its face 4, so that (0,0) shows "U" and (1,2) shows "T"; the call has one
\* possible result.
C18_ReproducibleShake ==
    [][(/\ cubes = ConstructedOrder
        /\ shake_cubes("PredictableShuffler", DoctestDie))
       => /\ \A row \in Rows, col \in Cols :
                cube_grid'[row][col] = (NumCubes - 1) - (GridSize * row + col)
          /\ \A id \in CubeIds : letter'[id] = CUBE_FACES[id][4]
          /\ letter'[cube_grid'[0][0]] = "U"
          /\ letter'[cube_grid'[1][2]] = "T"
          /\ Cardinality(shaken(cubes, letter, "PredictableShuffler", DoctestDie)) = 1]_vars

\* The shake has just returned and left the doctests' board.
C18_Witness ==
    /\ last_call = Returned("shake_cubes", "returned")
    /\ DoctestBoard
    /\ cube_grid[0][0] = NumCubes - 1
    /\ letter[cube_grid[1][2]] = "T"

\* C19. End-to-end scenario: on the board shaken with the PredictableShuffler
\* and PredictableDie(4), with "PUT" in the lexicon and nothing selected or
\* completed, report_selection(13), (12) and (9) build the word "PUT" one
\* letter at a time, and a further report_selection(9) leaves
\* completed_words = ["PUT"] and an empty word.
C19_PutScenario ==
    [][DoctestBoard /\ completed_words = << >> /\ PUT \in Lexicon
       => /\ (selected_cubes = << >> /\ word_so_far = << >> /\ report_selection(13))
             => (selected_cubes' = << 13 >> /\ word_so_far' = << "P" >>)
          /\ (selected_cubes = << 13 >> /\ word_so_far = << "P" >> /\ report_selection(12))
             => (selected_cubes' = << 13, 12 >> /\ word_so_far' = << "P", "U" >>)
          /\ (selected_cubes = << 13, 12 >> /\ word_so_far = << "P", "U" >> /\ report_selection(9))
             => (selected_cubes' = << 13, 12, 9 >> /\ word_so_far' = PUT)
          /\ (selected_cubes = << 13, 12, 9 >> /\ word_so_far = PUT /\ report_selection(9))
             => (completed_words' = << PUT >> /\ word_so_far' = << >>)]_vars

\* The fourth call of the scenario has just recorded "PUT" as the first word.
C19_Witness ==
    /\ DoctestBoard
    /\ last_call = Returned("report_selection", "completed")
    /\ completed_words = << PUT >>
    /\ word_so_far = << >>

\* C20. No deduplication: when the head of the path is picked again and the
\* word formed is in the lexicon and already in completed_words, the word is
\* appended once more, after the words recorded before it.
C20_NoDeduplication ==
    [][\A k \in CubeIds :
          (/\ selected_cubes # << >>
           /\ status[k] = MRS
           /\ upper(word_so_far) \in Lexicon
           /\ \E i \in DOMAIN completed_words : completed_words[i] = word_so_far
           /\ report_selection(k))
          => /\ completed_words' = Append(completed_words, word_so_far)
             /\ Cardinality({ i \in DOMAIN completed_words' :
                                 completed_words'[i] = word_so_far }) >= 2]_vars

\* The same word has just been recorded for the second time.
C20_Witness ==
    /\ last_call = Returned("report_selection", "completed")
    /\ Len(completed_words) = 2
    /\ completed_words[1] = completed_words[2]

\* C21 as stated. A finalized word is recorded only if it is valid and not
\* already found: completed_words never holds a word more than once.
C21_NoWordTwice ==
    \A i, j \in DOMAIN completed_words :
        i # j => completed_words[i] # completed_words[j]

\* C21 as amended. A finalized word is recorded only if it is valid: every
\* word of completed_words is in the lexicon (the same word may be there more
\* than once).
C21_OnlyValidWordsRecorded ==
    \A i \in DOMAIN completed_words : completed_words[i] \in Lexicon

\* A word the lexicon does not hold has just been turned down, on a board that
\* has recorded the same valid word twice.
C21_Witness ==
    /\ last_call = Returned("report_selection", "rejected")
    /\ Len(completed_words) = 2
    /\ completed_words[1] = completed_words[2]
    /\ completed_words[1] \in Lexicon

\* C22. No minimum word length: from the empty path, report_selection(k)
\* makes cube k the whole path, and a second report_selection(k) finalizes the
\* one-letter word: the cube's letter is appended to completed_words exactly
\* when it is in the lexicon, and the path, the word and every status are
\* reset either way.
C22_OneLetterWord ==
    [][\A k \in CubeIds :
          /\ (selected_cubes = << >> /\ report_selection(k))
             => /\ selected_cubes' = << k >>
                /\ word_so_far' = Chars(letter[k])
                /\ status'[k] = MRS
          /\ (/\ selected_cubes = << k >>
              /\ word_so_far = Chars(letter[k])
              /\ status[k] = MRS
              /\ report_selection(k))
             => /\ completed_words' =
                      IF Chars(letter[k]) \in Lexicon
                      THEN Append(completed_words, Chars(letter[k]))
                      ELSE completed_words
                /\ selected_cubes' = << >>
                /\ word_so_far' = << >>
                /\ AllUnselected(status')]_vars

\* A one-letter word has just been recorded.
C22_Witness ==
    /\ last_call = Returned("report_selection", "completed")
    /\ completed_words # << >>
    /\ Len(completed_words[Len(completed_words)]) = 1

\* C26. Construction: a new board holds the cubes 0..15, cube k at
\* (k div 4, k mod 4), showing its face 0 and 'unselected'; the path, the word
\* and completed_words are empty.  (So get_cube(0, 0) shows "A" and
\* get_cube(3, 3) shows "G".)
C26_Construction ==
    last_call.op = "__init__"
    => /\ ids_of(cubes) = CubeIds
       /\ Cardinality(DOMAIN cubes) = NumCubes
       /\ \A k \in CubeIds :
             /\ get_cube(k \div GridSize, k % GridSize) = k
             /\ locations[k] = << k \div GridSize, k % GridSize >>
             /\ letter[k] = CUBE_FACES[k][0]
             /\ status[k] = "unselected"
       /\ letter[get_cube(0, 0)] = "A"
       /\ letter[get_cube(3, 3)] = "G"
       /\ selected_cubes = << >>
       /\ word_so_far = << >>
       /\ completed_words = << >>

\* The board as constructed, with cube 6 at (1, 2) and cube 9 at (2, 1).
C26_Witness ==
    /\ last_call = Returned("__init__", "returned")
    /\ get_cube(1, 2) = 6
    /\ get_cube(2, 1) = 9
    /\ AllUnselected(status)

\* The cube at the i-th place of the grid, counted row by row
CubeAtPlace(grid, i) == grid[i \div GridSize][i % GridSize]

\* C27. Shake ordering: one shake_cubes call shuffles, rebuilds the grid and
\* the locations, and then rolls each of the sixteen cubes once, in the
\* row-major order of the new placement: the cube at the i-th place shows the
\* face picked by the i-th result of the die; afterwards every cube shows one
\* of its own six faces.
C27_ShakeOrdering ==
    [][\A shuffler \in ShufflerKinds, die \in Dice :
          (last_call'.op = "shake_cubes" /\ shake_cubes(shuffler, die))
          => /\ cubes' \in shuffle(shuffler, cubes)
             /\ cube_grid' = grid_of(cubes')
             /\ \A k \in CubeIds : cube_grid'[locations'[k][1]][locations'[k][2]] = k
             /\ \E rolls \in die_rolls(die) :
                   \A i \in 0 .. (NumCubes - 1) :
                      letter'[CubeAtPlace(cube_grid', i)] =
                         CUBE_FACES[CubeAtPlace(cube_grid', i)][rolls[i]]
             /\ \A k \in CubeIds :
                   \E f \in DOMAIN CUBE_FACES[k] : letter'[k] = CUBE_FACES[k][f]]_vars

\* A shake has just moved the cubes and left them showing different faces:
\* the first place of the grid shows a face 0 and the fourteenth a face 5.
C27_Witness ==
    /\ last_call = Returned("shake_cubes", "returned")
    /\ cubes # ConstructedOrder
    /\ letter[CubeAtPlace(cube_grid, 0)] = CUBE_FACES[CubeAtPlace(cube_grid, 0)][0]
    /\ letter[CubeAtPlace(cube_grid, 13)] = CUBE_FACES[CubeAtPlace(cube_grid, 13)][5]

\* C30. Status and path membership coincide: a cube's status differs from
\* 'unselected' if and only if its id is in the selection path; hence the path
\* is empty exactly when all sixteen cubes are 'unselected'.
C30_StatusIffInPath ==
    /\ \A k \in CubeIds : status[k] # "unselected" <=> k \in PathIds
    /\ selected_cubes = << >> <=> AllUnselected(status)

\* A path of two cubes, the only two that are not 'unselected', begun after a
\* finalize has emptied the path and unselected every cube.
C30_Witness ==
    /\ Len(selected_cubes) = 2
    /\ Cardinality({ k \in CubeIds : status[k] # "unselected" }) = 2
    /\ completed_words # << >>

\* C23. set_status with a value that is not one of the three statuses leaves
\* the cube's status as it was and raises nothing; so every cube's status is
\* always 'unselected', 'selected' or 'most recently selected', whatever
\* set_status and the board's operations are called with.
C23_UnknownStatusIgnored ==
    /\ [](\A id \in CubeIds : status[id] \in STATUSES)
    /\ [][\A id \in CubeIds, new_status \in StatusInputs \ STATUSES :
             cube_set_status(id, new_status)
             => /\ status' = status
                /\ last_call'.outcome # "raised"]_vars

\* set_status has just been called with an unknown status on a cube that is
\* 'most recently selected'.
C23_Witness ==
    /\ last_call = Returned("set_status", "returned, unknown status")
    /\ \E id \in CubeIds : status[id] = MRS

\* C24. An out-of-range die roll is a fatal error: for every die result
\* outside 0..5, negative ones such as -1 included, roll(die) raises an error
\* and leaves the cube's letter as it was.
C24_OutOfRangeRollFails ==
    [][\A id \in CubeIds :
       \A value \in RollValues \ DOMAIN CUBE_FACES[id] :
          cube_roll(id, [kind |-> "PredictableDie", always_rolls |-> value])
          => /\ last_call'.outcome = "IndexError"
             /\ letter' = letter]_vars

\* The list a in reverse order
Reversed(a) == [i \in DOMAIN a |-> a[Cardinality(DOMAIN a) - 1 - i]]

\* The lists a and b hold the same things the same number of times
SameItems(a, b) ==
    /\ DOMAIN a = DOMAIN b
    /\ \A x \in ShuffleItems :
          Cardinality({ i \in DOMAIN a : a[i] = x }) = Cardinality({ i \in DOMAIN b : b[i] = x })

\* C28. Every shuffler returns a new list that is a permutation of the one it
\* was given and leaves that one as it was; the PredictableShuffler returns
\* the elements in reverse order and the NonShuffler in the same order.
C28_ShufflersPermute ==
    [][\A shuffler \in ShufflerKinds :
          shuffle_step(shuffler)
          => /\ SameItems(copied'.returned, items)
             /\ ~copied'.same_list
             /\ items' = items
             /\ shuffler = "PredictableShuffler" => copied'.returned = Reversed(items)
             /\ shuffler = "NonShuffler" => copied'.returned = items]_vars

\* A shuffler has just returned three different things in an order that is
\* neither the one given nor its reverse, and the list given is as it was.
C28_Witness ==
    /\ last_call = Returned("shuffle", "returned")
    /\ Cardinality(DOMAIN items) = 3
    /\ Cardinality({ items[i] : i \in DOMAIN items }) = 3
    /\ SameItems(copied.returned, items)
    /\ copied.returned # items
    /\ copied.returned # Reversed(items)

\* C25. Commands reach the board in event order, also when a reset request
\* and a cube click arrive in the same batch: when a batch that ends with ESC
\* followed by a click on a cube has been processed, the reset was applied
\* before the click, so the clicked cube is the whole path and is 'most
\* recently selected'.
C25_EventOrder ==
    LET n == Len(events) IN
    (/\ pc.loop = "check_events"
     /\ n >= 3
     /\ events[n - 2] = ESC
     /\ events[n - 1].type = "MOUSEBUTTONDOWN"
     /\ events[n] = MouseUp)
    => /\ selected_cubes = << widget_cube(events[n - 1].pos) >>
       /\ status[widget_cube(events[n - 1].pos)] = MRS

\* ---------------------------------------------------------------------
\* C31: completed_words is append-only and dictionary-valid.  Over any
\* sequence of report_selection, reset_word and shake_cubes calls, every
\* word of completed_words is a member of the dictionary, each call leaves
\* the previous completed_words as a prefix of the new one and adds at most
\* one word, and finalizing a word that is not in the dictionary leaves
\* completed_words unchanged.
\* ---------------------------------------------------------------------
C31_AppendOnlyAndValid ==
    /\ [](\A i \in DOMAIN completed_words : completed_words[i] \in Lexicon)
    /\ [][/\ IsPrefix(completed_words, completed_words')
          /\ Len(completed_words') <= Len(completed_words) + 1
          /\ \A cube_id \in CubeIds :
                ( /\ selected_cubes # << >>
                  /\ status[cube_id] = MRS
                  /\ upper(word_so_far) \notin Lexicon
                  /\ report_selection(cube_id) )
                => completed_words' = completed_words]_vars

\* On a board that was shaken out of its constructed order, a word was
\* completed, and the finalize of a word that is not in the dictionary has
\* just returned with the completed word still recorded.
C31_Witness ==
    /\ cubes # ConstructedOrder
    /\ Len(completed_words) >= 1
    /\ last_call = Returned("report_selection", "rejected")

\* ---------------------------------------------------------------------
\* C32. Quit wins: when the QUIT button has been pushed (or the window was
\* closed) at the time the play loop checks the buttons, play() returns
\* True, and play_boggle then creates no further game; this also holds when
\* the RESET button was pushed in the same loop iteration.
\* ---------------------------------------------------------------------
C32_QuitWins ==
    [][/\ (pc.loop = "check_buttons" /\ QuitPlace \in recently_pushed)
            => last_call' = Returned("play", "True")
       /\ (pc.loop = "returned" /\ QuitPlace \in recently_pushed)
            => pc'.loop = "exited"]_vars

====
